---- MODULE Spec2Model ----
(***************************************************************************)
(* LiquibaseDB (src/liquibase_cli.py): the update / rollback commands, the *)
(* DATABASECHANGELOG ledger, the DATABASECHANGELOGLOCK row and the schema  *)
(* objects the change operations act on.                                   *)
(*                                                                         *)
(* Every statement that goes through DatabaseManager.execute_sql is        *)
(* committed on its own (cursor.execute; conn.commit), so one SQL          *)
(* statement is one atomic step of the model.  A command invocation is a   *)
(* process: Spec runs the invocations one after the other (one process),   *)
(* ConcSpec runs two processes against the same store.  SQLite's busy      *)
(* timeout (a statement of one process failing because the other holds the *)
(* file lock for longer than the timeout) is not modelled.                 *)
(*                                                                         *)
(* The change kinds of the catalogue are createTable, insert, dropTable    *)
(* and an unknown kind; addColumn, dropColumn, renameColumn, createIndex   *)
(* and sql are not used by any catalogue change set.  A change's data is   *)
(* reduced to its tableName key (present or missing).                      *)
(***************************************************************************)
EXTENDS Integers, Sequences, FiniteSets, TLC

VARIABLES changelog, lockrow, tables, rows, proc, runs, prev, parsed

vars == <<changelog, lockrow, tables, rows, proc, runs, prev, parsed>>

(***************************************************************************)
(* Bounds                                                                  *)
(***************************************************************************)
MaxRuns == 4      \* command invocations started in one behaviour of Spec
MaxConcRuns == 3  \* command invocations started in one behaviour of ConcSpec
MaxCount == 3     \* largest COUNT argument given to rollback

Procs == {1, 2}
SeqProcs == {1}
TableNames == {"t", "u"}
Counts == 0..MaxCount

(***************************************************************************)
(* Sequence helpers                                                        *)
(***************************************************************************)
Range(s) == {s[i] : i \in DOMAIN s}

Reverse(s) == [i \in 1..Len(s) |-> s[Len(s) + 1 - i]]

\* a faulty SelectIds: nothing is filtered out
SelectIdsAll(ms, executed) == ms

RECURSIVE SelectIdsBackwards(_, _)
\* a faulty SelectIds: the selection comes out in reverse document order
SelectIdsBackwards(ms, executed) ==
    IF ms = <<>> THEN <<>>
    ELSE IF Head(ms).id \in executed
         THEN SelectIdsBackwards(Tail(ms), executed)
         ELSE SelectIdsBackwards(Tail(ms), executed) \o <<Head(ms)>>

RECURSIVE SelectIds(_, _)
\* [m for m in migrations if m.id not in executed]
SelectIds(ms, executed) ==
    IF ms = <<>> THEN <<>>
    ELSE IF Head(ms).id \in executed
         THEN SelectIds(Tail(ms), executed)
         ELSE <<Head(ms)>> \o SelectIds(Tail(ms), executed)

\* Python's executed[-count:] for count >= 0: -0 is 0, so count = 0 takes the
\* whole list; a count beyond the length takes the whole list too.
SliceLast(s, count) ==
    LET start == IF count = 0 \/ count > Len(s) THEN 0 ELSE Len(s) - count
    IN  SubSeq(s, start + 1, Len(s))

(***************************************************************************)
(* Change sets (class Migration) and the catalogue of documents            *)
(***************************************************************************)
Change(kind, data) == [kind |-> kind, data |-> data]
OnTable(t) == [tableName |-> t]
NoFields == [other |-> "x"]

CreateT == Change("createTable", OnTable("t"))
CreateU == Change("createTable", OnTable("u"))
InsertT == Change("insert", OnTable("t"))
DropT == Change("dropTable", OnTable("t"))
DropU == Change("dropTable", OnTable("u"))
Bogus == Change("bogus", OnTable("t"))
Malformed == Change("createTable", NoFields)

\* json.dumps of one change's data and of the list of changes
DumpData(d) ==
    IF "tableName" \in DOMAIN d
    THEN "{\"tableName\": \"" \o d.tableName \o "\"}"
    ELSE "{\"other\": \"" \o d.other \o "\"}"

DumpChange(c) == "{\"" \o c.kind \o "\": " \o DumpData(c.data) \o "}"

RECURSIVE DumpList(_)
DumpList(cs) ==
    IF cs = <<>> THEN ""
    ELSE IF Len(cs) = 1 THEN DumpChange(cs[1])
    ELSE DumpChange(cs[1]) \o ", " \o DumpList(Tail(cs))

JsonDumps(cs) == "[" \o DumpList(cs) \o "]"

\* Migration._calculate_checksum: the digest of the concatenation; the digest
\* itself is taken to be collision-free, so the content string stands for it.
CalculateChecksum(id, author, changes) == id \o author \o JsonDumps(changes)

Migration(id, author, changes, rollback) ==
    [id |-> id, author |-> author, changes |-> changes, rollback |-> rollback,
     checksum |-> CalculateChecksum(id, author, changes)]

MigA == Migration("a", "ann", <<CreateT>>, <<DropT>>)
MigA2 == Migration("a", "ann", <<CreateT, InsertT>>, <<DropT>>)
MigB == Migration("b", "bob", <<CreateU>>, <<DropU>>)
MigB2 == Migration("b", "bob", <<InsertT, Bogus>>, <<>>)
MigC == Migration("c", "ann", <<InsertT>>, <<DropU, Malformed>>)
MigC2 == Migration("c", "ann", <<InsertT>>, <<DropU>>)
MigA3 == Migration("a", "ann", <<InsertT>>, <<DropT>>)
MigC3 == Migration("c", "ann", <<Malformed>>, <<>>)

\* The parsed changelog files the commands are given
Docs ==
    [abc |-> <<MigA, MigB, MigC2>>,
     cba |-> <<MigC2, MigB, MigA>>,
     drift |-> <<MigA2, MigB2, MigC>>,
     only_b |-> <<MigB>>,
     dup |-> <<MigA, MigA3, MigC3>>]

DocNames == DOMAIN Docs
ConcDocNames == {"abc"}

\* The names the tag command is given
TagNames == {"v1", "v2"}
ConcTagNames == {"v1"}

\* migrations_dict = {m.id: m for m in migrations}: the last one of an id wins
HasId(ms, id) == \E i \in DOMAIN ms : ms[i].id = id

DictGet(ms, id) ==
    LET i == CHOOSE i \in DOMAIN ms :
                 /\ ms[i].id = id
                 /\ \A j \in DOMAIN ms : ms[j].id = id => j <= i
    IN  ms[i]

(***************************************************************************)
(* The store: DATABASECHANGELOG rows, the lock row, and the schema objects *)
(***************************************************************************)
NoTag == "null"

ChangelogRow(m, order) ==
    [id |-> m.id, author |-> m.author, order_executed |-> order,
     md5sum |-> m.checksum, tag |-> NoTag]

Ids(log) == {r.id : r \in log}

\* SELECT id FROM DATABASECHANGELOG ORDER BY order_executed: every listing of
\* the ids that is ascending in order_executed.  Rows that share an
\* order_executed may come in either order (SQL leaves it open).
IsExecutedListing(s, log) ==
    /\ Len(s) = Cardinality(log)
    /\ Range(s) = Ids(log)
    /\ \A i, j \in DOMAIN s :
          i < j =>
            \E ri, rj \in log :
               /\ ri.id = s[i]
               /\ rj.id = s[j]
               /\ ri.order_executed <= rj.order_executed

GetExecutedMigrations(log) ==
    {s \in [1..Cardinality(log) -> Ids(log)] : IsExecutedListing(s, log)}

Failed(tb, rw) == [ok |-> FALSE, tables |-> tb, rows |-> rw]
Done(tb, rw) == [ok |-> TRUE, tables |-> tb, rows |-> rw]

\* CREATE TABLE t (...): an error when t exists
CreateTable(data, tb, rw) ==
    IF "tableName" \notin DOMAIN data THEN Failed(tb, rw)
    ELSE IF data.tableName \in tb THEN Failed(tb, rw)
    ELSE Done(tb \cup {data.tableName}, [rw EXCEPT ![data.tableName] = 0])

\* DROP TABLE IF EXISTS t
DropTable(data, tb, rw) ==
    IF "tableName" \notin DOMAIN data THEN Failed(tb, rw)
    ELSE Done(tb \ {data.tableName}, [rw EXCEPT ![data.tableName] = 0])

\* INSERT INTO t (...) VALUES (...): an error when t does not exist
InsertData(data, tb, rw) ==
    IF "tableName" \notin DOMAIN data THEN Failed(tb, rw)
    ELSE IF data.tableName \notin tb THEN Failed(tb, rw)
    ELSE Done(tb, [rw EXCEPT ![data.tableName] = @ + 1])

\* a faulty ExecChange: a change of an unknown type is passed over
ExecChangeSkipUnknown(c, tb, rw) ==
    CASE c.kind = "createTable" -> CreateTable(c.data, tb, rw)
      [] c.kind = "dropTable" -> DropTable(c.data, tb, rw)
      [] c.kind = "insert" -> InsertData(c.data, tb, rw)
      [] OTHER -> Done(tb, rw)

\* MigrationExecutor._execute_change: dispatch on the change type; the
\* statement is committed by execute_sql as soon as it has run.
ExecChange(c, tb, rw) ==
    CASE c.kind = "createTable" -> CreateTable(c.data, tb, rw)
      [] c.kind = "dropTable" -> DropTable(c.data, tb, rw)
      [] c.kind = "insert" -> InsertData(c.data, tb, rw)
      [] OTHER -> Failed(tb, rw)

(***************************************************************************)
(* One command invocation                                                  *)
(***************************************************************************)
Event(ev, id, k) == [ev |-> ev, id |-> id, k |-> k]

IdleProc ==
    [pc |-> "idle", cmd |-> "none", doc |-> "none", count |-> 0,
     tagname |-> "none",
     queue |-> <<>>, queue0 |-> <<>>, k |-> 0, order |-> 0, trace |-> <<>>,
     log0 |-> {}, tables0 |-> {}, rows0 |-> [t \in TableNames |-> 0],
     cstables |-> {}, csrows |-> [t \in TableNames |-> 0]]

\* update's for loop (line 353) reaching the next pending migration, or the
\* end of the command.  cstables/csrows remember the schema the change set
\* starts from.
NextPending(r, queue, tb, rw) ==
    IF queue = <<>>
    THEN [r EXCEPT !.pc = "idle", !.queue = <<>>, !.k = 0]
    ELSE [r EXCEPT !.pc = IF Head(queue).changes = <<>> THEN "order" ELSE "change",
                   !.queue = queue, !.k = 1,
                   !.cstables = tb, !.csrows = rw]

RECURSIVE NextRollback(_, _, _, _)
\* rollback's for loop (lines 385-387): an id that the document does not
\* define is passed over, and so is a migration without rollback changes
\* (rollback_migration returns False at line 146); the loop goes on.
NextRollback(r, queue, tb, rw) ==
    IF queue = <<>>
    THEN [r EXCEPT !.pc = "idle", !.queue = <<>>, !.k = 0]
    ELSE IF ~HasId(Docs[r.doc], Head(queue))
    THEN NextRollback([r EXCEPT !.trace = Append(@, Event("missing", Head(queue), 0))],
                      Tail(queue), tb, rw)
    ELSE IF DictGet(Docs[r.doc], Head(queue)).rollback = <<>>
    THEN NextRollback([r EXCEPT !.trace = Append(@, Event("norollback", Head(queue), 0))],
                      Tail(queue), tb, rw)
    ELSE [r EXCEPT !.pc = "rb_change", !.queue = queue, !.k = 1,
                   !.cstables = tb, !.csrows = rw]

\* A fresh invocation.  queue0, log0, tables0, rows0 and trace are history:
\* what the command selected, the store it started from, and what it did.
Started(cmd, d, count, selected) ==
    [IdleProc EXCEPT !.cmd = cmd, !.doc = d, !.count = count, !.queue0 = selected,
                     !.log0 = changelog, !.tables0 = tables, !.rows0 = rows]

LastRun(p) ==
    [cmd |-> proc[p].cmd, doc |-> proc[p].doc, count |-> proc[p].count,
     queue0 |-> proc[p].queue0, trace |-> proc[p].trace]

\* update, lines 327-351: parse, read the executed ids, select the pending
UpdateStart(p, d, limit) ==
    /\ proc[p].pc = "idle"
    /\ runs < limit
    /\ \E executed \in GetExecutedMigrations(changelog) :
          LET pending == SelectIds(Docs[d], Range(executed))
          IN  proc' = [proc EXCEPT ![p] =
                          NextPending(Started("update", d, 0, [i \in DOMAIN pending |-> pending[i].id]),
                                      pending, tables, rows)]
    /\ runs' = runs + 1
    /\ prev' = LastRun(p)
    /\ UNCHANGED <<parsed, changelog, lockrow, tables, rows>>

\* execute_migration, lines 110-111 and 135-137: one change of the current
\* migration; an exception ends the migration (return False) and update's
\* loop goes on with the next pending one.
ExecuteChange(p) ==
    /\ proc[p].pc = "change"
    /\ LET r == proc[p]
           m == Head(r.queue)
           res == ExecChange(m.changes[r.k], tables, rows)
       IN  /\ tables' = res.tables
           /\ rows' = res.rows
           /\ proc' = [proc EXCEPT ![p] =
                 IF ~res.ok
                 THEN NextPending([r EXCEPT !.trace = Append(@, Event("execfail", m.id, r.k))],
                                  Tail(r.queue), res.tables, res.rows)
                 ELSE IF r.k < Len(m.changes)
                 THEN [r EXCEPT !.k = @ + 1, !.trace = Append(@, Event("exec", m.id, r.k))]
                 ELSE [r EXCEPT !.pc = "order", !.trace = Append(@, Event("exec", m.id, r.k))]]
    /\ UNCHANGED <<parsed, changelog, lockrow, runs, prev>>

\* execute_migration, line 114: order = len(get_executed_migrations()) + 1
RecordOrder(p) ==
    /\ proc[p].pc = "order"
    /\ \E executed \in GetExecutedMigrations(changelog) :
          proc' = [proc EXCEPT ![p].pc = "insert", ![p].order = Len(executed) + 1]
    /\ UNCHANGED <<parsed, changelog, lockrow, tables, rows, runs, prev>>

\* execute_migration, lines 115-137: INSERT INTO DATABASECHANGELOG; the
\* primary key on id rejects a second row of the same id.
InsertChangelog(p) ==
    /\ proc[p].pc = "insert"
    /\ LET r == proc[p]
           m == Head(r.queue)
       IN  IF m.id \in Ids(changelog)
           THEN /\ changelog' = changelog
                /\ proc' = [proc EXCEPT ![p] =
                      NextPending([r EXCEPT !.trace = Append(@, Event("appendfail", m.id, r.order))],
                                  Tail(r.queue), tables, rows)]
           ELSE /\ changelog' = changelog \cup {ChangelogRow(m, r.order)}
                /\ proc' = [proc EXCEPT ![p] =
                      NextPending([r EXCEPT !.trace = Append(@, Event("append", m.id, r.order))],
                                  Tail(r.queue), tables, rows)]
    /\ UNCHANGED <<parsed, lockrow, tables, rows, runs, prev>>

\* rollback, lines 361-383: parse, read the executed ids, take the last count
RollbackStart(p, count, d, limit) ==
    /\ proc[p].pc = "idle"
    /\ runs < limit
    /\ \E executed \in GetExecutedMigrations(changelog) :
          LET to_rollback == Reverse(SliceLast(executed, count))
          IN  proc' = [proc EXCEPT ![p] =
                          NextRollback(Started("rollback", d, count, to_rollback),
                                       to_rollback, tables, rows)]
    /\ runs' = runs + 1
    /\ prev' = LastRun(p)
    /\ UNCHANGED <<parsed, changelog, lockrow, tables, rows>>

\* rollback_migration, lines 149-150 and 161-163: one rollback change
RollbackChange(p) ==
    /\ proc[p].pc = "rb_change"
    /\ LET r == proc[p]
           m == DictGet(Docs[r.doc], Head(r.queue))
           res == ExecChange(m.rollback[r.k], tables, rows)
       IN  /\ tables' = res.tables
           /\ rows' = res.rows
           /\ proc' = [proc EXCEPT ![p] =
                 IF ~res.ok
                 THEN NextRollback([r EXCEPT !.trace = Append(@, Event("rbfail", m.id, r.k))],
                                   Tail(r.queue), res.tables, res.rows)
                 ELSE IF r.k < Len(m.rollback)
                 THEN [r EXCEPT !.k = @ + 1, !.trace = Append(@, Event("rbexec", m.id, r.k))]
                 ELSE [r EXCEPT !.pc = "rb_delete", !.trace = Append(@, Event("rbexec", m.id, r.k))]]
    /\ UNCHANGED <<parsed, changelog, lockrow, runs, prev>>

\* rollback_migration, lines 153-159: DELETE FROM DATABASECHANGELOG WHERE id = ?
DeleteChangelog(p) ==
    /\ proc[p].pc = "rb_delete"
    /\ LET r == proc[p]
           id == Head(r.queue)
       IN  /\ changelog' = {row \in changelog : row.id /= id}
           /\ proc' = [proc EXCEPT ![p] =
                 NextRollback([r EXCEPT !.trace = Append(@, Event("remove", id, 0))],
                              Tail(r.queue), tables, rows)]
    /\ UNCHANGED <<parsed, lockrow, tables, rows, runs, prev>>

\* a faulty LastMigration: the oldest listed entry
FirstMigration(executed) == executed[1]

\* last_migration = executed[-1]
LastMigration(executed) == executed[Len(executed)]

\* tag, lines 438-448: read the executed ids; without any, report and return
TagStart(p, name, limit) ==
    /\ proc[p].pc = "idle"
    /\ runs < limit
    /\ \E executed \in GetExecutedMigrations(changelog) :
          proc' = [proc EXCEPT ![p] =
             IF executed = <<>>
             THEN [Started("tag", "none", 0, <<>>)
                      EXCEPT !.tagname = name,
                             !.trace = <<Event("nomigrations", "none", 0)>>]
             ELSE [Started("tag", "none", 0, <<LastMigration(executed)>>)
                      EXCEPT !.pc = "tag_update", !.tagname = name,
                             !.queue = <<LastMigration(executed)>>]]
    /\ runs' = runs + 1
    /\ prev' = LastRun(p)
    /\ UNCHANGED <<parsed, changelog, lockrow, tables, rows>>

\* tag, lines 449-454: UPDATE DATABASECHANGELOG SET tag = ? WHERE id = ?
TagUpdate(p) ==
    /\ proc[p].pc = "tag_update"
    /\ LET r == proc[p]
           id == Head(r.queue)
       IN  /\ changelog' = {IF row.id = id THEN [row EXCEPT !.tag = r.tagname] ELSE row :
                               row \in changelog}
           /\ proc' = [proc EXCEPT ![p] =
                 [r EXCEPT !.pc = "idle", !.queue = <<>>,
                           !.trace = Append(@, Event("tag", id, 0))]]
    /\ UNCHANGED <<parsed, lockrow, tables, rows, runs, prev>>

\* a faulty Clear: DELETE FROM DATABASECHANGELOG WHERE tag IS NULL
ClearUntagged(p, limit) ==
    /\ proc[p].pc = "idle"
    /\ runs < limit
    /\ changelog' = {row \in changelog : row.tag /= NoTag}
    /\ proc' = [proc EXCEPT ![p] = Started("clear", "none", 0, <<>>)]
    /\ runs' = runs + 1
    /\ prev' = LastRun(p)
    /\ UNCHANGED <<parsed, lockrow, tables, rows>>

\* clear, lines 563-567: DELETE FROM DATABASECHANGELOG
Clear(p, limit) ==
    /\ proc[p].pc = "idle"
    /\ runs < limit
    /\ changelog' = {}
    /\ proc' = [proc EXCEPT ![p] = Started("clear", "none", 0, <<>>)]
    /\ runs' = runs + 1
    /\ prev' = LastRun(p)
    /\ UNCHANGED <<parsed, lockrow, tables, rows>>

\* DatabaseManager._init_changelog_table on an empty database file
EmptyDatabase ==
    /\ changelog = {}
    /\ lockrow = [id |-> 1, locked |-> FALSE, lockedby |-> "null"]
    /\ tables = {}
    /\ rows = [t \in TableNames |-> 0]
    /\ proc = [p \in Procs |-> IdleProc]
    /\ runs = 0
    /\ prev = [cmd |-> "none", doc |-> "none", count |-> 0,
               queue0 |-> <<>>, trace |-> <<>>]

NoneParsed == [input |-> <<>>, checksum |-> <<>>]

Init ==
    /\ EmptyDatabase
    /\ parsed = NoneParsed

Step(p, docs, tags, limit) ==
    \/ \E d \in docs : UpdateStart(p, d, limit)
    \/ ExecuteChange(p)
    \/ RecordOrder(p)
    \/ InsertChangelog(p)
    \/ \E d \in docs, count \in Counts : RollbackStart(p, count, d, limit)
    \/ RollbackChange(p)
    \/ DeleteChangelog(p)
    \/ \E name \in tags : TagStart(p, name, limit)
    \/ TagUpdate(p)
    \/ Clear(p, limit)

Next == \E p \in SeqProcs : Step(p, DocNames, TagNames, MaxRuns)

Spec == Init /\ [][Next]_vars

ConcNext == \E p \in Procs : Step(p, ConcDocNames, ConcTagNames, MaxConcRuns)

ConcSpec == Init /\ [][ConcNext]_vars

(***************************************************************************)
(* Migration objects built from pairs of definitions, for the fingerprint  *)
(***************************************************************************)
FpIds == {"a", "ab"}
FpAuthors == {"b", "bb"}
FpChanges == {<<>>, <<CreateT>>, <<InsertT>>, <<CreateT, InsertT>>}

FpInputs == [id : FpIds, author : FpAuthors, changes : FpChanges]

NotComputed == "none"

FpInit ==
    /\ EmptyDatabase
    /\ parsed \in {[input |-> <<x, y>>, checksum |-> <<NotComputed, NotComputed>>] :
                      x, y \in FpInputs}

\* Migration.__init__ on the i-th definition: self.checksum is computed
NewMigration(i) ==
    /\ i \in DOMAIN parsed.input
    /\ parsed.checksum[i] = NotComputed
    /\ LET d == parsed.input[i]
       IN  parsed' = [parsed EXCEPT
                        !.checksum[i] = Migration(d.id, d.author, d.changes, <<>>).checksum]
    /\ UNCHANGED <<changelog, lockrow, tables, rows, proc, runs, prev>>

FpNext == \E i \in 1..2 : NewMigration(i)

FpSpec == FpInit /\ [][FpNext]_vars

(***************************************************************************)
(* Properties                                                              *)
(***************************************************************************)
Running(p) == proc[p].pc /= "idle"

Finished(p, cmd) == proc[p].pc = "idle" /\ proc[p].cmd = cmd

\* the number of events of kind ev for change set id and operation k
Count(trace, ev, id, k) ==
    Cardinality({i \in DOMAIN trace : trace[i] = Event(ev, id, k)})

EventsOf(trace, kinds) == {i \in DOMAIN trace : trace[i].ev \in kinds}

\* every invocation so far is an update of document d, one per process
OnlyUpdatesOf(d) ==
    /\ runs = Cardinality({p \in Procs : proc[p].cmd /= "none"})
    /\ \A p \in Procs : proc[p].cmd /= "none" =>
          proc[p].cmd = "update" /\ proc[p].doc = d

\* C1: no two update/rollback invocations are inside their LOCKED
\* (diffing/applying) interval at the same time.
C1_MutualExclusion ==
    \A p, q \in Procs : p /= q => ~(Running(p) /\ Running(q))

\* C2: when the only invocations are updates given the same document, every
\* operation of every change set is executed at most once in total and every
\* change set has at most one ledger entry.
C2_AtMostOnce ==
    \A d \in DocNames :
       OnlyUpdatesOf(d) =>
          \A i \in DOMAIN Docs[d] :
             LET m == Docs[d][i]
             IN  /\ \A k \in DOMAIN m.changes :
                       Count(proc[1].trace, "exec", m.id, k)
                         + Count(proc[2].trace, "exec", m.id, k) <= 1
                 /\ Cardinality({r \in changelog : r.id = m.id}) <= 1

\* C3: when operation k >= 2 of a change set fails during update, the schema
\* is back to what it was when the change set started and the change set has
\* no ledger entry.
C3_Atomicity ==
    [][\A p \in Procs :
          (/\ ExecuteChange(p)
           /\ proc[p].k >= 2
           /\ ~ExecChange(Head(proc[p].queue).changes[proc[p].k], tables, rows).ok)
          => /\ tables' = proc[p].cstables
             /\ rows' = proc[p].csrows
             /\ Head(proc[p].queue).id \notin Ids(changelog')]_vars

\* the change sets of document d are all in ledger log
AllRecorded(d, log) == \A i \in DOMAIN Docs[d] : Docs[d][i].id \in Ids(log)

\* process p is in, or has ended, an update that directly follows an update
\* with the same document
SecondUpdate(p) ==
    /\ proc[p].cmd = "update"
    /\ prev.cmd = "update"
    /\ prev.doc = proc[p].doc

NothingDone(p) ==
    /\ proc[p].pc = "idle"
    /\ proc[p].queue0 = <<>>
    /\ proc[p].trace = <<>>
    /\ changelog = proc[p].log0
    /\ tables = proc[p].tables0
    /\ rows = proc[p].rows0

\* C4 as stated: for every document, the second of two updates in a row with
\* that document skips every id, executes no operation, appends no ledger
\* entry and leaves ledger and schema as the first call left them.
C4_IdempotenceAnyDocument ==
    \A p \in SeqProcs : SecondUpdate(p) => NothingDone(p)

\* C4 as amended: the same, for a document whose change sets the first call
\* has all recorded in the ledger.
C4_Idempotence ==
    \A p \in SeqProcs :
       SecondUpdate(p) /\ AllRecorded(proc[p].doc, proc[p].log0) => NothingDone(p)

C4_Witness ==
    /\ SecondUpdate(1)
    /\ proc[1].pc = "idle"
    /\ proc[1].doc = "abc"
    /\ Ids(proc[1].log0) = {"a", "b", "c"}

\* order_executed of the row of id in ledger log
OrderOf(log, id) == (CHOOSE row \in log : row.id = id).order_executed

Min(a, b) == IF a <= b THEN a ELSE b

\* the ledger entry of id, as it was when p's rollback started, was recorded
\* with another fingerprint than the document's change set of that id has
Drifted(p, id) ==
    /\ HasId(Docs[proc[p].doc], id)
    /\ \E row \in proc[p].log0 :
          /\ row.id = id
          /\ row.md5sum /= DictGet(Docs[proc[p].doc], id).checksum

\* the entry of id is one rollback(count) is to target: fewer than count
\* entries of the ledger the run started from have a higher order_executed
Targeted(p, id) ==
    /\ id \in Ids(proc[p].log0)
    /\ Cardinality({row \in proc[p].log0 :
            row.order_executed > OrderOf(proc[p].log0, id)}) < proc[p].count

\* C5: a targeted entry whose fingerprint differs from the document's is not
\* rolled back: none of its rollback operations runs, its row stays, and no
\* later target is handled.
C5_DriftDetected ==
    \A p \in SeqProcs :
       proc[p].cmd = "rollback" =>
          \A i \in DOMAIN proc[p].queue0 :
             Targeted(p, proc[p].queue0[i]) /\ Drifted(p, proc[p].queue0[i]) =>
                /\ \A e \in DOMAIN proc[p].trace :
                      proc[p].trace[e].id = proc[p].queue0[i]
                        => proc[p].trace[e].ev \notin {"rbexec", "rbfail", "remove"}
                /\ \E row \in changelog : row.id = proc[p].queue0[i]
                /\ \A j \in DOMAIN proc[p].queue0, e \in DOMAIN proc[p].trace :
                      j > i => proc[p].trace[e].id /= proc[p].queue0[j]

\* C6: rollback handles the targeted ledger entries in strictly descending
\* order_executed: whenever it turns from one entry to another, the other has
\* a smaller order_executed.
C6_RollbackOrder ==
    \A p \in SeqProcs :
       proc[p].cmd = "rollback" =>
          \A i, j \in DOMAIN proc[p].trace :
             (/\ i < j
              /\ proc[p].trace[i].id /= proc[p].trace[j].id
              /\ Targeted(p, proc[p].trace[i].id)
              /\ Targeted(p, proc[p].trace[j].id))
             => OrderOf(proc[p].log0, proc[p].trace[i].id)
                  > OrderOf(proc[p].log0, proc[p].trace[j].id)

\* C7: rollback(count) targets exactly the min(count, ledger size) entries of
\* highest order_executed, and removes no entry outside them.
C7_CountBound ==
    \A p \in SeqProcs :
       proc[p].cmd = "rollback" =>
          LET targets == Range(proc[p].queue0)
              removed == Ids(proc[p].log0) \ Ids(changelog)
          IN  /\ Len(proc[p].queue0) = Min(proc[p].count, Cardinality(proc[p].log0))
              /\ Cardinality(targets) = Len(proc[p].queue0)
              /\ \A id \in targets, other \in Ids(proc[p].log0) \ targets :
                    OrderOf(proc[p].log0, id) >= OrderOf(proc[p].log0, other)
              /\ removed \subseteq targets
              /\ Cardinality(removed) <= proc[p].count

DocIds(d) == {Docs[d][i].id : i \in DOMAIN Docs[d]}

DocPos(d, id) == CHOOSE i \in DOMAIN Docs[d] : Docs[d][i].id = id

\* ids is the sequence of the ids of the change sets of document d whose id
\* is not in log, in the order of the document
IsPendingOf(ids, d, log) ==
    /\ Len(ids) = Cardinality({i \in DOMAIN Docs[d] : Docs[d][i].id \notin Ids(log)})
    /\ \E f \in [DOMAIN ids -> DOMAIN Docs[d]] :
          /\ \A i, j \in DOMAIN ids : i < j => f[i] < f[j]
          /\ \A i \in DOMAIN ids :
                Docs[d][f[i]].id = ids[i] /\ ids[i] \notin Ids(log)

C9_StopAtFirstFailure ==
    \A p \in SeqProcs :
       proc[p].cmd = "update" =>
          \A i \in EventsOf(proc[p].trace, {"execfail", "appendfail"}) :
             i = Len(proc[p].trace) /\ proc[p].pc = "idle"

\* C10: a targeted entry without a change set of its id in the document ends
\* the rollback: no older target is handled after it.
C10_MissingDefinitionStops ==
    \A p \in SeqProcs :
       proc[p].cmd = "rollback" =>
          \A i \in EventsOf(proc[p].trace, {"missing"}) :
             Targeted(p, proc[p].trace[i].id) =>
                i = Len(proc[p].trace) /\ proc[p].pc = "idle"

\* the rollback change p is about to execute raises
RollbackChangeFails(p) ==
    /\ proc[p].pc = "rb_change"
    /\ ~ExecChange(DictGet(Docs[proc[p].doc], Head(proc[p].queue)).rollback[proc[p].k],
                   tables, rows).ok

\* C11: a targeted change set without rollback operations, reached after the
\* newer targets were rolled back, ends the rollback and keeps its entry:
\* nothing is handled, and no entry is removed, after it.
C11_NoRollbackStops ==
    \A p \in SeqProcs :
       proc[p].cmd = "rollback" =>
          \A i \in EventsOf(proc[p].trace, {"norollback"}) :
             (/\ Targeted(p, proc[p].trace[i].id)
              /\ \A j \in 1..(i - 1) : proc[p].trace[j].ev \in {"rbexec", "remove"}) =>
                /\ i = Len(proc[p].trace)
                /\ proc[p].pc = "idle"
                /\ proc[p].trace[i].id \in Ids(changelog)

\* C12: a ledger entry is removed only when all rollback operations of its
\* change set have succeeded; when a rollback operation fails, the schema is
\* back to what it was when the rollback of that change set began, the entry
\* stays, and the run ends.
C12_RollbackAtomicity ==
    [][\A p \in SeqProcs :
          /\ DeleteChangelog(p) =>
                \A k \in DOMAIN DictGet(Docs[proc[p].doc], Head(proc[p].queue)).rollback :
                   Count(proc[p].trace, "rbexec", Head(proc[p].queue), k) >= 1
          /\ (/\ RollbackChange(p)
              /\ RollbackChangeFails(p)
              /\ Targeted(p, Head(proc[p].queue))) =>
                /\ tables' = proc[p].cstables
                /\ rows' = proc[p].csrows
                /\ Head(proc[p].queue) \in Ids(changelog')
                /\ proc'[p].pc = "idle"]_vars

\* C13: after any step of update, rollback, tag and clear runs no two ledger
\* entries share an order_executed, and an entry appended by the step has an
\* order_executed strictly greater than that of every entry present before it.
C13_OrderUniqueIncreasing ==
    [][/\ \A r1, r2 \in changelog' :
             r1.order_executed = r2.order_executed => r1 = r2
       /\ \A r \in changelog' :
             r.id \notin Ids(changelog) =>
                \A q \in changelog : r.order_executed > q.order_executed]_vars

\* C14: when a run has ended, every change set listed in the ledger is fully
\* applied: an entry appended by the update had each of its operations
\* executed, and no rollback operation of a listed change set was executed by
\* the rollback.
C14_LedgerTruthful ==
    \A p \in SeqProcs :
       proc[p].pc = "idle" =>
          \A id \in Ids(changelog) :
             /\ (/\ proc[p].cmd = "update"
                 /\ \E i \in EventsOf(proc[p].trace, {"append"}) : proc[p].trace[i].id = id) =>
                   \A k \in DOMAIN DictGet(Docs[proc[p].doc], id).changes :
                      Count(proc[p].trace, "exec", id, k) >= 1
             /\ proc[p].cmd = "rollback" =>
                   \A i \in EventsOf(proc[p].trace, {"rbexec"}) : proc[p].trace[i].id /= id

\* C15: two change sets have the same fingerprint exactly when they have the
\* same id, the same author and the same operations.
C15_FingerprintDiscriminates ==
    (parsed.checksum[1] /= NotComputed /\ parsed.checksum[2] /= NotComputed) =>
       (parsed.checksum[1] = parsed.checksum[2] <=> parsed.input[1] = parsed.input[2])

\* the rows of log other than the row of id
Others(log, id) == {row \in log : row.id /= id}

\* C16: tag on a non-empty ledger sets the tag of exactly one entry, the one
\* whose order_executed is the maximum, and changes no other entry, no other
\* field and nothing of the schema; on an empty ledger it reports that there
\* is nothing to tag and changes nothing; no other step changes the tag of
\* an entry.
C16_Tagging ==
    [][\A p \in SeqProcs :
          /\ TagUpdate(p) =>
                \E row \in changelog :
                   /\ \A q \in changelog : q.order_executed <= row.order_executed
                   /\ changelog' = Others(changelog, row.id)
                                      \cup {[row EXCEPT !.tag = proc[p].tagname]}
                   /\ Cardinality(changelog') = Cardinality(changelog)
                   /\ tables' = tables /\ rows' = rows /\ lockrow' = lockrow
          /\ (/\ \E name \in TagNames : TagStart(p, name, MaxRuns)
              /\ changelog = {}) =>
                /\ proc'[p].pc = "idle"
                /\ proc'[p].trace = <<Event("nomigrations", "none", 0)>>
                /\ changelog' = {} /\ tables' = tables /\ rows' = rows
          /\ ~TagUpdate(p) =>
                \A r1 \in changelog, r2 \in changelog' :
                   r1.id = r2.id => r1.tag = r2.tag]_vars

\* a tag run has ended on a ledger of several entries, one of which carries
\* the tag name
C16_Witness ==
    \E p \in SeqProcs :
       /\ Finished(p, "tag")
       /\ Cardinality(changelog) >= 2
       /\ \E i \in DOMAIN proc[p].trace : proc[p].trace[i].ev = "tag"
       /\ Cardinality({row \in changelog : row.tag = proc[p].tagname}) = 1

KnownKinds == {"createTable", "dropTable", "insert"}

\* the change the update of p is about to execute
CurrentChange(p) == Head(proc[p].queue).changes[proc[p].k]

\* the change p is about to execute cannot succeed: its type is unknown, its
\* table name is missing, or the store rejects the statement
MustFail(c) ==
    \/ c.kind \notin KnownKinds
    \/ "tableName" \notin DOMAIN c.data
    \/ c.kind = "createTable" /\ c.data.tableName \in tables
    \/ c.kind = "insert" /\ c.data.tableName \notin tables

LastEvent(r) == r.trace[Len(r.trace)]

\* C18: when an operation of a change set fails during update (a required
\* field is missing, the change type is unknown, or the store rejects the
\* statement), the failure is reported, the run leaves the change set without
\* appending an entry for it, and the ledger is unchanged.
C18_FailureNeverRecorded ==
    [][\A p \in SeqProcs :
          (ExecuteChange(p) /\ MustFail(CurrentChange(p))) =>
             /\ LastEvent(proc'[p]) = Event("execfail", Head(proc[p].queue).id, proc[p].k)
             /\ Len(proc'[p].trace) = Len(proc[p].trace) + 1
             /\ proc'[p].queue = Tail(proc[p].queue)
             /\ changelog' = changelog]_vars

\* an update has ended in which a change of unknown type was reported, its
\* change set is not in the ledger, and the entry appended before it is
C18_Witness ==
    \E p \in SeqProcs :
       /\ Finished(p, "update")
       /\ \E i \in DOMAIN proc[p].trace : proc[p].trace[i] = Event("execfail", "b", 2)
       /\ "b" \notin Ids(changelog)
       /\ "a" \in Ids(changelog)

Failures(trace) == EventsOf(trace, {"execfail", "appendfail"})

\* the position, among the change sets an update selected, of the one whose
\* handling ended with event i of its trace
SelectedPos(trace, i) ==
    Cardinality({j \in EventsOf(trace, {"append", "execfail", "appendfail"}) : j <= i})

FirstFailure(trace) == CHOOSE i \in Failures(trace) : \A j \in Failures(trace) : i <= j

\* C19: when a change set fails in an update, the change sets the run
\* recorded before it keep their entries, and the next update with the same
\* document selects exactly the failed change set and those after it.
C19_ChangeSetGranular ==
    \A p \in SeqProcs :
       proc[p].cmd = "update" =>
          /\ \A i \in Failures(proc[p].trace) :
                \A j \in EventsOf(proc[p].trace, {"append"}) :
                   j < i => \E row \in changelog :
                               /\ row.id = proc[p].trace[j].id
                               /\ row.order_executed = proc[p].trace[j].k
                               /\ row.tag = NoTag
          /\ (SecondUpdate(p) /\ Failures(prev.trace) /= {}) =>
                proc[p].queue0 =
                   SubSeq(prev.queue0, SelectedPos(prev.trace, FirstFailure(prev.trace)),
                          Len(prev.queue0))

\* C20: the ledger holds at most one entry per id; the append of a change set
\* whose id is already in the ledger is rejected, the existing entries are
\* unchanged, and the schema is as it was before the operations of the
\* rejected change set.
C20_DuplicateRejected ==
    [][\A p \in SeqProcs :
          /\ \A r1, r2 \in changelog' : r1.id = r2.id => r1 = r2
          /\ (InsertChangelog(p) /\ Head(proc[p].queue).id \in Ids(changelog)) =>
                /\ LastEvent(proc'[p]).ev = "appendfail"
                /\ changelog' = changelog
                /\ tables' = proc[p].cstables
                /\ rows' = proc[p].csrows]_vars

\* the ids of the change sets of document d, in the order of the document
DocIdSeq(d) == [i \in DOMAIN Docs[d] |-> Docs[d][i].id]

\* r is (in) an update that directly follows a clear
AfterClear(r) == r.cmd = "update" /\ prev'.cmd = "clear"

\* C21: clear removes every ledger entry and leaves the lock row and the
\* schema unchanged; the update that follows it starts from that unchanged
\* schema, selects every change set of its document, executes the operations
\* of each of them again, and numbers the entries it appends from 1.
C21_ClearWipesOnlyLedger ==
    [][\A p \in SeqProcs :
          /\ Clear(p, MaxRuns) =>
                /\ changelog' = {}
                /\ lockrow' = lockrow /\ tables' = tables /\ rows' = rows
          /\ AfterClear(proc'[p]) =>
                LET r == proc'[p]
                    appends == EventsOf(r.trace, {"append"})
                IN  /\ r.log0 = {}
                    /\ r.queue0 = DocIdSeq(r.doc)
                    /\ proc[p].cmd = "clear" =>
                          r.tables0 = proc[p].tables0 /\ r.rows0 = proc[p].rows0
                    /\ \A i \in appends :
                          /\ r.trace[i].k = Cardinality({j \in appends : j <= i})
                          /\ \E row \in changelog' :
                                /\ row.id = r.trace[i].id
                                /\ row.order_executed = r.trace[i].k
                    /\ r.pc = "idle" =>
                          Cardinality({i \in EventsOf(r.trace, {"exec", "execfail"}) :
                                          r.trace[i].k = 1}) = Len(r.queue0)]_vars

\* an update that followed a clear has ended: the tables created before the
\* clear were still there, a createTable failed on one of them, and the entry
\* the run appended has order_executed 1
C21_Witness ==
    \E p \in SeqProcs :
       /\ Finished(p, "update")
       /\ prev.cmd = "clear"
       /\ proc[p].tables0 /= {}
       /\ Len(proc[p].queue0) >= 2
       /\ \E i \in EventsOf(proc[p].trace, {"execfail"}) :
             /\ proc[p].trace[i].k = 1
             /\ DictGet(Docs[proc[p].doc], proc[p].trace[i].id).changes[1] = CreateT
             /\ "t" \in proc[p].tables0
       /\ \E i \in EventsOf(proc[p].trace, {"append"}) : proc[p].trace[i].k = 1
       /\ \E row \in changelog : row.order_executed = 1
====
